---- MODULE Spec2Model ----
(***************************************************************************)
(* Resilient API transport of notte-cli: the circuit breaker               *)
(* (internal/api/circuit.go), the retry policy (internal/api/retry.go),    *)
(* the idempotency key injection (internal/api/idempotency.go) and the     *)
(* resilientTransport that orchestrates them (internal/api/client.go),     *)
(* DoWithRetry (internal/api/retry.go) and the error classifier            *)
(* (internal/errors/parse.go, internal/errors/errors.go).                  *)
(*                                                                         *)
(* Time is a discrete clock `now` (1, 2, ...); the zero time.Time{} is 0   *)
(* and lies before every clock reading.                                    *)
(***************************************************************************)
EXTENDS Integers, Sequences, FiniteSets, TLC

VARIABLES
    cb,           \* the CircuitBreaker: failures, threshold, resetPeriod, openUntil
    retryConfig,  \* the RetryConfig shared by all calls (read-only)
    now,          \* the wall clock read by time.Now()
    call,         \* per goroutine: the RoundTrip call it is executing
    active,       \* the goroutines that issue RoundTrip calls
    ncalls,       \* number of RoundTrip calls started so far
    hist,         \* history of the breaker's Record* calls (auxiliary)
    obs,          \* value returned by the last direct Allow/State/OpenUntil call
    dwr,          \* the DoWithRetry call (retry.go) in progress
    pure,         \* the last call of a pure function: its arguments and result
    sync          \* the breaker's mutex and the goroutines inside its methods

vars == <<cb, retryConfig, now, call, active, ncalls, hist, obs, dwr, pure, sync>>

----------------------------------------------------------------------------
(* Bounds of the model *)

MaxTime == 3            \* the clock runs from 1 to MaxTime
MaxReset == 2           \* resetPeriod ranges over 1..MaxReset clock ticks
MaxThreshold == 3       \* thresholds 1..MaxThreshold for the breaker on its own
MaxFailures == 4        \* cap on the failure counter for the breaker on its own
MaxRetriesBound == 3    \* RetryConfig.MaxRetries ranges over -1..MaxRetriesBound
MaxCalls == 2           \* RoundTrip calls in one run, one more per further goroutine
MaxAttempt == 4         \* attempt numbers 0..MaxAttempt handed to the retry policy
MaxMsgLen == 3          \* length of the short messages handed to SanitizeMessage
JitterSteps == 2        \* rand.Float64() is drawn from k / (2*JitterSteps)
NumProcs == 2           \* goroutines sharing one client
MaxOps == 3             \* breaker method calls made by the goroutines in one run
NumSeeds == 2           \* distinct outcomes of a successful crypto/rand read

(* Program constants *)

DefaultThreshold == 5   \* NewCircuitBreaker(5, 30*time.Second)
DefaultMaxRetries == 3  \* DefaultRetryConfig().MaxRetries
DefaultInitialBackoff == 1  \* DefaultRetryConfig().InitialBackoff, in clock ticks (1s)
DefaultMaxBackoff == 30     \* DefaultRetryConfig().MaxBackoff, in clock ticks (30s)
KeyBytes == 32          \* make([]byte, 32) in GenerateIdempotencyKey
StatusTooManyRequests == 429

ZeroTime == 0           \* time.Time{}
Nil == 0                \* a nil *http.Response

Procs == 1..NumProcs

----------------------------------------------------------------------------
(* internal/api/circuit.go *)

CircuitClosed == "closed"
CircuitOpen == "open"
CircuitHalfOpen == "half-open"

NewCircuitBreaker(threshold, resetPeriod) ==
    [failures |-> 0, threshold |-> threshold,
     resetPeriod |-> resetPeriod, openUntil |-> ZeroTime]

\* A breaker that never leaves Open by itself.
stateUnlocked_Stuck(b, t) ==
    IF b.failures < b.threshold THEN CircuitClosed ELSE CircuitOpen

\* time.Now().After(cb.openUntil) is a strict comparison.
stateUnlocked(b, t) ==
    IF b.failures < b.threshold THEN CircuitClosed
    ELSE IF t > b.openUntil THEN CircuitHalfOpen
    ELSE CircuitOpen

\* A breaker that admits calls only while it is closed.
Allow_ClosedOnly(b, t) == stateUnlocked(b, t) = CircuitClosed

Allow(b, t) == stateUnlocked(b, t) # CircuitOpen

State(b, t) == stateUnlocked(b, t)

\* A success that only takes one failure back.
RecordSuccess_Decrement(b) ==
    [b EXCEPT !.failures = IF @ > 0 THEN @ - 1 ELSE 0, !.openUntil = ZeroTime]

RecordSuccess(b) == [b EXCEPT !.failures = 0, !.openUntil = ZeroTime]

\* A breaker that arms the deadline on every failure.
RecordFailure_AlwaysArm(b, t) ==
    [b EXCEPT !.failures = @ + 1, !.openUntil = t + b.resetPeriod]

\* A breaker that arms the deadline only when the count reaches the threshold.
RecordFailure_OnceOnly(b, t) ==
    LET f == b.failures + 1
    IN  [b EXCEPT !.failures = f,
                  !.openUntil = IF f = b.threshold THEN t + b.resetPeriod ELSE @]

\* A breaker that opens one failure late (> instead of >=).
RecordFailure_Late(b, t) ==
    LET f == b.failures + 1
    IN  [b EXCEPT !.failures = f,
                  !.openUntil = IF f > b.threshold THEN t + b.resetPeriod ELSE @]

\* A breaker whose failures past the threshold clear the deadline.
RecordFailure_Disarm(b, t) ==
    LET f == b.failures + 1
    IN  [b EXCEPT !.failures = f,
                  !.openUntil = IF f = b.threshold THEN t + b.resetPeriod
                                ELSE ZeroTime]

RecordFailure(b, t) ==
    LET f == b.failures + 1
    IN  [b EXCEPT !.failures = f,
                  !.openUntil = IF f >= b.threshold THEN t + b.resetPeriod ELSE @]

OpenUntil(b) == b.openUntil

----------------------------------------------------------------------------
(* internal/api/retry.go *)

Idempotent == {"GET", "HEAD", "OPTIONS"}
Mutating == {"POST", "PUT", "PATCH", "DELETE"}
Methods == Idempotent \cup Mutating

\* A method table that leaves OPTIONS out.
isIdempotent_NoOptions(method) == method \in {"GET", "HEAD"}

isIdempotent(method) == method \in {"GET", "HEAD", "OPTIONS"}

\* A retry policy that forgets the method when it sees a 5xx.
ShouldRetry_AnyMethod(c, statusCode, method, attempt) ==
    IF attempt >= c.MaxRetries THEN FALSE
    ELSE IF statusCode = StatusTooManyRequests THEN TRUE
    ELSE IF statusCode >= 500 /\ statusCode < 600 THEN TRUE
    ELSE FALSE

\* A retry policy that allows one retry too many (> instead of >=).
ShouldRetry_OneMore(c, statusCode, method, attempt) ==
    IF attempt > c.MaxRetries THEN FALSE
    ELSE IF statusCode = StatusTooManyRequests THEN TRUE
    ELSE IF statusCode >= 500 /\ statusCode < 600 THEN isIdempotent(method)
    ELSE FALSE

ShouldRetry(c, statusCode, method, attempt) ==
    IF attempt >= c.MaxRetries THEN FALSE
    ELSE IF statusCode = StatusTooManyRequests THEN TRUE
    ELSE IF statusCode >= 500 /\ statusCode < 600 THEN isIdempotent(method)
    ELSE FALSE

\* math.Pow(2, float64(attempt)) for an attempt number >= 0.
RECURSIVE Pow2(_)
Pow2(n) == IF n <= 0 THEN 1 ELSE 2 * Pow2(n - 1)

\* The values of rand.Float64()*2 - 1, a number in [-1, 1), as j / JitterSteps.
JitterDraws == (-JitterSteps)..(JitterSteps - 1)

\* A backoff that is capped before the jitter is added.
Backoff_ClampFirst(c, attempt, j) ==
    LET d == 4 * JitterSteps
        b == c.InitialBackoff * Pow2(attempt)
        capped == IF b > c.MaxBackoff THEN c.MaxBackoff ELSE b
    IN  IF c.Jitter THEN (capped * (d + j)) \div d ELSE capped

\* A backoff that grows linearly with the attempt number.
Backoff_Linear(c, attempt, j) ==
    LET d == 4 * JitterSteps
        n == c.InitialBackoff * 2 * attempt * (IF c.Jitter THEN d + j ELSE d)
    IN  IF n > c.MaxBackoff * d THEN c.MaxBackoff ELSE n \div d

\* retry.go:51-67. The float64 backoff is kept as the exact fraction n / d:
\* the jitter backoff * 0.25 * (j / JitterSteps) is backoff * j / d. The cap
\* compares the fraction with MaxBackoff and time.Duration() truncates it.
Backoff(c, attempt, j) ==
    LET d == 4 * JitterSteps
        n == c.InitialBackoff * Pow2(attempt) * (IF c.Jitter THEN d + j ELSE d)
    IN  IF n > c.MaxBackoff * d THEN c.MaxBackoff ELSE n \div d

----------------------------------------------------------------------------
(* internal/api/idempotency.go *)

HexDigits == <<"0", "1", "2", "3", "4", "5", "6", "7",
               "8", "9", "a", "b", "c", "d", "e", "f">>

\* hex.EncodeToString: two lowercase digits per byte, high nibble first.
EncodeToString(bytes) ==
    [i \in 1..(2 * Len(bytes)) |->
        LET b == bytes[(i + 1) \div 2]
        IN  IF i % 2 = 1 THEN HexDigits[(b \div 16) + 1]
                         ELSE HexDigits[(b % 16) + 1]]

\* What crypto/rand.Read can do: fill the buffer, or fail.
RandBytes(seed) == [i \in 1..KeyBytes |-> (37 * seed * i) % 256]
RandReads == [ok : {TRUE}, bytes : {RandBytes(s) : s \in 0..(NumSeeds - 1)}]
                 \cup {[ok |-> FALSE, bytes |-> << >>]}

\* A generator that reads 16 bytes only.
GenerateIdempotencyKey_Short(rnd) ==
    IF ~rnd.ok THEN [key |-> << >>, err |-> TRUE]
    ELSE [key |-> EncodeToString(SubSeq(rnd.bytes, 1, 16)), err |-> FALSE]

\* (key, err): err is TRUE when rand.Read failed.
GenerateIdempotencyKey(rnd) ==
    IF ~rnd.ok THEN [key |-> << >>, err |-> TRUE]
    ELSE [key |-> EncodeToString(rnd.bytes), err |-> FALSE]

IsMutatingMethod(method) == method \in {"POST", "PUT", "PATCH", "DELETE"}

\* The request after AddIdempotencyKey; Header is the value of the
\* Idempotency-Key header, << >> when the header is absent.
AddIdempotencyKey(req, rnd) ==
    IF IsMutatingMethod(req.Method) /\ req.Header = << >>
        /\ ~GenerateIdempotencyKey(rnd).err
    THEN [req EXCEPT !.Header = GenerateIdempotencyKey(rnd).key]
    ELSE req

\* Whether AddIdempotencyKey calls GenerateIdempotencyKey for this request.
GeneratesKey(req) == IsMutatingMethod(req.Method) /\ req.Header = << >>

----------------------------------------------------------------------------
(* internal/api/client.go *)

\* A request's Body is "none", or the state of its reader: "unread" or
\* "consumed"; GetBody is "nil", or "ok" / "err" for what the function returns.
NoBody == [Body |-> "none", GetBody |-> "nil"]
RequestBodies ==
    {NoBody} \cup [Body : {"unread"}, GetBody : {"nil", "ok", "err"}]

\* A clone that starts from empty headers.
cloneRequest_NoHeaders(req) ==
    [Method |-> req.Method, Header |-> << >>,
     Body |-> IF req.GetBody = "ok" THEN "fresh" ELSE req.Body,
     GetBody |-> req.GetBody]

\* req.Clone plus req.Header.Clone(): the copy carries the request's headers.
\* req.Clone copies the Body field, so the copy shares the original's reader
\* unless GetBody hands out a new one ("fresh").
cloneRequest(req) ==
    [Method |-> req.Method, Header |-> req.Header,
     Body |-> IF req.GetBody = "ok" THEN "fresh" ELSE req.Body,
     GetBody |-> req.GetBody]

\* Status codes the underlying transport answers with.
Statuses == {200, 404, 429, 500, 503, 600}

\* Outcome of one base.RoundTrip: a response, or a network error.
Outcomes == [resp : Statuses, err : {FALSE}] \cup {[resp |-> Nil, err |-> TRUE]}

\* Values RoundTrip returns.
NoReturn == [resp |-> Nil, err |-> "unset", OpenUntil |-> ZeroTime]
ReturnResp(status) == [resp |-> status, err |-> "nil", OpenUntil |-> ZeroTime]
ReturnErr == [resp |-> Nil, err |-> "network", OpenUntil |-> ZeroTime]
CircuitBreakerError(openUntil) ==
    [resp |-> Nil, err |-> "circuit", OpenUntil |-> openUntil]

\* Header values a caller may already have put on its request.
CallerHeaders == {<< >>, <<"r", "e", "q", "-", "1">>}

\* Before the first attempt there is no outcome.
NoOutcome == [resp |-> Nil, err |-> FALSE]

\* pc, req, attempt, resp, err and ret are the call's position, request, loop
\* counter, doWithRetry's resp and err, and RoundTrip's return value; ctx is
\* the state of the request's context (req.Context()). The rest
\* is auxiliary: hdr0 the caller's own header value, admitted the answer of
\* Allow(), keygen the result of GenerateIdempotencyKey, calls the number of
\* base.RoundTrip calls, sent the header values handed to them, last their
\* latest outcome, outs all their outcomes, rec the breaker update made,
\* sentBody the bodies handed to base.RoundTrip, resps the number of responses
\* received, closed the number of them whose body the loop closed and
\* lastClosed whether the latest one is among these, allowState the breaker's
\* state when Allow() was asked, denyAt and denyUntil the time and the
\* breaker's deadline when Allow() denied the call.
IdleCall ==
    [pc |-> "idle",
     req |-> [Method |-> "GET", Header |-> << >>,
              Body |-> "none", GetBody |-> "nil"],
     attempt |-> 0, resp |-> Nil, err |-> FALSE, ret |-> NoReturn,
     ctx |-> "live", hdr0 |-> << >>, admitted |-> "pending", keygen |-> "none",
     calls |-> 0, sent |-> {}, last |-> NoOutcome, outs |-> {}, rec |-> "none",
     sentBody |-> {}, resps |-> 0, closed |-> 0, lastClosed |-> FALSE,
     allowState |-> "none", denyAt |-> ZeroTime, denyUntil |-> ZeroTime]

Crashed == \E p \in Procs : call[p].pc = "panic"

\* Auxiliary history of the breaker's Record* calls.
\* fsince counts the RecordFailure calls since the last RecordSuccess (or since
\* creation), lastFailAt is the time of the latest RecordFailure, last the
\* latest Record* call, succFrom the state the latest RecordSuccess found and
\* failFrom the state the latest RecordFailure found.
NoHist ==
    [fsince |-> 0, hadSuccess |-> FALSE, lastFailAt |-> ZeroTime,
     last |-> "new", succFrom |-> "none", failFrom |-> "none"]
HistFailure(h, t, from) ==
    [h EXCEPT !.fsince = @ + 1, !.lastFailAt = t, !.last = "RecordFailure",
              !.failFrom = from]
HistSuccess(h, from) ==
    [h EXCEPT !.fsince = 0, !.hadSuccess = TRUE, !.last = "RecordSuccess",
              !.succFrom = from]
NoObs == [op |-> "none", val |-> FALSE]

----------------------------------------------------------------------------
(* Direct calls of the breaker's methods, as circuit_test.go makes them *)

CallAllow ==
    /\ obs' = [op |-> "Allow", val |-> Allow(cb, now)]
    /\ UNCHANGED <<dwr, pure, cb, retryConfig, now, call, active, ncalls, hist, sync>>

CallState ==
    /\ obs' = [op |-> "State", val |-> State(cb, now)]
    /\ UNCHANGED <<dwr, pure, cb, retryConfig, now, call, active, ncalls, hist, sync>>

CallOpenUntil ==
    /\ obs' = [op |-> "OpenUntil", val |-> OpenUntil(cb)]
    /\ UNCHANGED <<dwr, pure, cb, retryConfig, now, call, active, ncalls, hist, sync>>

CallRecordSuccess ==
    /\ cb' = RecordSuccess(cb)
    /\ hist' = HistSuccess(hist, State(cb, now))
    /\ obs' = NoObs
    /\ UNCHANGED <<dwr, pure, retryConfig, now, call, active, ncalls, sync>>

CallRecordFailure ==
    /\ cb.failures < MaxFailures
    /\ cb' = RecordFailure(cb, now)
    /\ hist' = HistFailure(hist, now, State(cb, now))
    /\ obs' = NoObs
    /\ UNCHANGED <<dwr, pure, retryConfig, now, call, active, ncalls, sync>>

\* The clock advances.
Tick ==
    /\ ~Crashed
    /\ now < MaxTime
    /\ now' = now + 1
    /\ obs' = NoObs
    /\ UNCHANGED <<dwr, pure, cb, retryConfig, call, active, ncalls, hist, sync>>

----------------------------------------------------------------------------
(* resilientTransport.RoundTrip, one goroutine p per call *)

\* A caller hands a request to the transport.
Start(p, method, header, body) ==
    /\ ~Crashed
    /\ p \in active
    /\ call[p].pc \in {"idle", "done"}
    /\ ncalls < MaxCalls + Cardinality(active) - 1
    /\ call' = [call EXCEPT ![p] =
            [IdleCall EXCEPT !.pc = "allow",
                             !.req = [Method |-> method, Header |-> header,
                                      Body |-> body.Body,
                                      GetBody |-> body.GetBody],
                             !.hdr0 = header]]
    /\ ncalls' = ncalls + 1
    /\ UNCHANGED <<dwr, pure, cb, retryConfig, now, active, hist, obs, sync>>

\* A denial that forgets to return: the call goes on to the retry loop.
RoundTripDeny_FallThrough(p) ==
    /\ ~Crashed
    /\ call[p].pc = "allow"
    /\ ~Allow(cb, now)
    /\ call' = [call EXCEPT ![p].pc = "loop", ![p].admitted = "no",
                            ![p].allowState = State(cb, now),
                            ![p].denyAt = now,
                            ![p].denyUntil = cb.openUntil]
    /\ UNCHANGED <<dwr, pure, cb, retryConfig, now, active, ncalls, hist, obs, sync>>

\* client.go:104-108, Allow() is false: the call is denied.
RoundTripDeny(p) ==
    /\ ~Crashed
    /\ call[p].pc = "allow"
    /\ ~Allow(cb, now)
    /\ call' = [call EXCEPT ![p].pc = "denied", ![p].admitted = "no",
                            ![p].allowState = State(cb, now),
                            ![p].denyAt = now,
                            ![p].denyUntil = cb.openUntil]
    /\ UNCHANGED <<dwr, pure, cb, retryConfig, now, active, ncalls, hist, obs, sync>>

\* client.go:105-107: the error is built from a separate OpenUntil() read.
RoundTripFail(p) ==
    /\ ~Crashed
    /\ call[p].pc = "denied"
    /\ call' = [call EXCEPT ![p].pc = "done",
                            ![p].ret = CircuitBreakerError(OpenUntil(cb))]
    /\ UNCHANGED <<dwr, pure, cb, retryConfig, now, active, ncalls, hist, obs, sync>>

\* client.go:104-118, Allow() is true: headers are set, the key is added.
RoundTripAdmit(p, rnd) ==
    /\ ~Crashed
    /\ call[p].pc = "allow"
    /\ Allow(cb, now)
    /\ call' = [call EXCEPT ![p].pc = "loop",
                            ![p].admitted = "yes",
                            ![p].allowState = State(cb, now),
                            ![p].req = AddIdempotencyKey(call[p].req, rnd),
                            ![p].keygen =
                                IF ~GeneratesKey(call[p].req) THEN "none"
                                ELSE IF GenerateIdempotencyKey(rnd).err THEN "failed"
                                ELSE "ok"]
    /\ UNCHANGED <<dwr, pure, cb, retryConfig, now, active, ncalls, hist, obs, sync>>

\* client.go:141-169: one iteration of the retry loop; out is what the
\* underlying transport answers to the cloned request.
DoWithRetryAttempt(p, out) ==
    LET c == call[p]
        reqCopy == cloneRequest(c.req)
        \* base.RoundTrip reads the body it is given: a shared reader is
        \* consumed for the original request as well
        sentc == [c EXCEPT !.calls = @ + 1,
                           !.sent = @ \cup {reqCopy.Header},
                           !.sentBody = @ \cup {reqCopy.Body},
                           !.req.Body = IF reqCopy.Body = "unread"
                                        THEN "consumed" ELSE @,
                           !.last = out, !.outs = @ \cup {out},
                           !.resp = out.resp, !.err = out.err,
                           !.resps = IF out.err THEN @ ELSE @ + 1,
                           !.lastClosed = FALSE]
        \* client.go:164, resp.Body.Close()
        closedc == [sentc EXCEPT !.closed = @ + 1, !.lastClosed = TRUE]
    IN  /\ ~Crashed
        /\ c.pc = "loop"
        /\ c.attempt <= retryConfig.MaxRetries
        \* http.Transport fails a request whose context is done
        /\ c.ctx = "cancelled" => out.err
        /\ call' = [call EXCEPT ![p] =
              IF out.err
              THEN IF ~isIdempotent(c.req.Method)
                   THEN [sentc EXCEPT !.pc = "record", !.resp = Nil]
                   ELSE IF c.attempt < retryConfig.MaxRetries
                        THEN [sentc EXCEPT !.pc = "sleep"]
                        ELSE [sentc EXCEPT !.pc = "record", !.resp = Nil]
              ELSE IF ~ShouldRetry(retryConfig, out.resp, c.req.Method, c.attempt)
                   THEN [sentc EXCEPT !.pc = "record"]
                   ELSE IF c.attempt < retryConfig.MaxRetries
                        THEN [closedc EXCEPT !.pc = "sleep"]
                        ELSE [closedc EXCEPT !.attempt = @ + 1]]
        /\ UNCHANGED <<dwr, pure, cb, retryConfig, now, active, ncalls, hist, obs, sync>>

\* client.go:152-153, 168: time.Sleep(Backoff(attempt)) ends, attempt++.
DoWithRetrySleep(p) ==
    /\ ~Crashed
    /\ call[p].pc = "sleep"
    /\ call' = [call EXCEPT ![p].pc = "loop", ![p].attempt = @ + 1]
    /\ UNCHANGED <<dwr, pure, cb, retryConfig, now, active, ncalls, hist, obs, sync>>

\* client.go:141, 172: the loop condition fails, return resp, err.
DoWithRetryExit(p) ==
    /\ ~Crashed
    /\ call[p].pc = "loop"
    /\ call[p].attempt > retryConfig.MaxRetries
    /\ call' = [call EXCEPT ![p].pc = "record"]
    /\ UNCHANGED <<dwr, pure, cb, retryConfig, now, active, ncalls, hist, obs, sync>>

\* Off by one: 500 itself is not a failure.
IsFailureStatus_Strict(statusCode) == statusCode > 500

\* Wrong class: only codes above the 5xx range are failures.
IsFailureStatus_Above5xx(statusCode) == statusCode >= 600

\* client.go:128: resp.StatusCode >= 500 counts as a failure.
IsFailureStatus(statusCode) == statusCode >= 500

\* client.go:121-134: the breaker is updated from the loop's result; reading
\* resp.StatusCode of a nil response is a nil dereference (panic).
RoundTripRecord(p) ==
    LET c == call[p]
    IN  /\ ~Crashed
        /\ c.pc = "record"
        /\ IF c.err
           THEN /\ cb' = RecordFailure(cb, now)
                /\ hist' = HistFailure(hist, now, State(cb, now))
                /\ call' = [call EXCEPT ![p].pc = "done", ![p].rec = "failure",
                                        ![p].ret = ReturnErr]
           ELSE IF c.resp = Nil
           THEN /\ call' = [call EXCEPT ![p].pc = "panic"]
                /\ UNCHANGED <<cb, hist>>
           ELSE IF IsFailureStatus(c.resp)
           THEN /\ cb' = RecordFailure(cb, now)
                /\ hist' = HistFailure(hist, now, State(cb, now))
                /\ call' = [call EXCEPT ![p].pc = "done", ![p].rec = "failure",
                                        ![p].ret = ReturnResp(c.resp)]
           ELSE /\ cb' = RecordSuccess(cb)
                /\ hist' = HistSuccess(hist, State(cb, now))
                /\ call' = [call EXCEPT ![p].pc = "done", ![p].rec = "success",
                                        ![p].ret = ReturnResp(c.resp)]
        /\ UNCHANGED <<dwr, pure, retryConfig, now, active, ncalls, obs, sync>>

\* The caller cancels the context of its request (or the deadline passes)
\* while RoundTrip is running.
Cancel(p) ==
    /\ ~Crashed
    /\ call[p].pc \in {"allow", "denied", "loop", "sleep", "record"}
    /\ call[p].ctx = "live"
    /\ call' = [call EXCEPT ![p].ctx = "cancelled"]
    /\ UNCHANGED <<dwr, pure, cb, retryConfig, now, active, ncalls, hist, obs, sync>>

----------------------------------------------------------------------------
(* internal/errors/errors.go and internal/errors/parse.go *)

\* A Go string is the sequence of its bytes; the texts of the model are ASCII,
\* so that a byte is also a rune.
Text_nil_response == <<110, 105, 108, 32, 114, 101, 115, 112, 111, 110, 115, 101>>  \* "nil response"
Text_error == <<101, 114, 114, 111, 114>>  \* "error"
Text_message == <<109, 101, 115, 115, 97, 103, 101>>  \* "message"
Text_detail == <<100, 101, 116, 97, 105, 108>>  \* "detail"
Text_code == <<99, 111, 100, 101>>  \* "code"
Text_source == <<115, 111, 117, 114, 99, 101>>  \* "source"
Text_msg == <<109, 115, 103>>  \* "msg"
Text_sep == <<59, 32>>  \* "; "
Text_dots == <<46, 46, 46>>  \* "..."

\* strings.Join
RECURSIVE Join(_, _)
Join(ss, sep) ==
    IF ss = << >> THEN << >>
    ELSE IF Len(ss) = 1 THEN ss[1]
    ELSE ss[1] \o sep \o Join(Tail(ss), sep)

\* The JSON texts a field of the body may hold, each with the shape
\* encoding/json sees in it: a string, a number, an object with the members of
\* nestedError, an array of objects with a msg member, or nothing (the field
\* is absent and its json.RawMessage is empty).
Quote(str) == <<34>> \o str \o <<34>>
Member(name, text) == Quote(name) \o <<58>> \o text
JAbsent == [t |-> "absent", text |-> << >>]
JStr(str) == [t |-> "str", text |-> Quote(str), s |-> str]
JNum(digits) == [t |-> "num", text |-> digits]
JObj(code, message, source) ==
    [t |-> "obj",
     text |-> <<123>> \o Join(<<Member(Text_code, Quote(code)),
                               Member(Text_message, Quote(message)),
                               Member(Text_source, Quote(source))>>, <<44>>)
                     \o <<125>>,
     Code |-> code, Message |-> message, Source |-> source]
JArr(msgs) ==
    [t |-> "arr",
     text |-> <<91>> \o Join([i \in 1..Len(msgs) |->
                                <<123>> \o Member(Text_msg, Quote(msgs[i])) \o <<125>>],
                            <<44>>)
                    \o <<93>>,
     Msgs |-> msgs]

\* A response body: a JSON object with the members error, message and detail
\* (those present), or a text that does not decode into apiErrorResponse.
PresentMembers(e, m, d) ==
    (IF e.t = "absent" THEN << >> ELSE <<Member(Text_error, e.text)>>)
    \o (IF m.t = "absent" THEN << >> ELSE <<Member(Text_message, m.text)>>)
    \o (IF d.t = "absent" THEN << >> ELSE <<Member(Text_detail, d.text)>>)
BodyObject(e, m, d) ==
    [kind |-> "object",
     text |-> <<123>> \o Join(PresentMembers(e, m, d), <<44>>) \o <<125>>,
     error |-> e, message |-> m, detail |-> d]
BodyText(text) == [kind |-> "text", text |-> text]

\* json.Unmarshal(body, &apiResp): a member of the wrong type is skipped, the
\* others are still stored, and the type error is returned at the end.
UnmarshalBody(body) ==
    IF body.kind = "object"
    THEN [err |-> body.message.t \notin {"absent", "str"},
          Error |-> body.error,
          Message |-> IF body.message.t = "str" THEN body.message.s ELSE << >>,
          Detail |-> body.detail]
    ELSE [err |-> TRUE, Error |-> JAbsent, Message |-> << >>, Detail |-> JAbsent]

\* json.Unmarshal of a raw member into a nestedError, a string and a
\* []fastAPIValidationError.
UnmarshalNested(raw) ==
    IF raw.t = "obj"
    THEN [err |-> FALSE, Code |-> raw.Code, Message |-> raw.Message,
          Source |-> raw.Source]
    ELSE [err |-> TRUE, Code |-> << >>, Message |-> << >>, Source |-> << >>]
UnmarshalString(raw) ==
    IF raw.t = "str" THEN [err |-> FALSE, s |-> raw.s]
    ELSE [err |-> TRUE, s |-> << >>]
UnmarshalValidationErrors(raw) ==
    IF raw.t = "arr" THEN [err |-> FALSE, Msgs |-> raw.Msgs]
    ELSE [err |-> TRUE, Msgs |-> << >>]

maxLen == 500  \* const maxLen in SanitizeMessage

\* parse.go:181-199
SanitizeMessage(msg) ==
    LET cut == IF Len(msg) > maxLen
               THEN SubSeq(msg, 1, maxLen) \o Text_dots ELSE msg
    IN  SelectSeq(cut, LAMBDA r : r >= 32 \/ r = 10)

\* parse.go:140-166
parseDetailMessage(detail) ==
    IF Len(detail.text) = 0 THEN << >>
    ELSE IF ~UnmarshalString(detail).err THEN UnmarshalString(detail).s
    ELSE IF /\ ~UnmarshalValidationErrors(detail).err
            /\ Len(UnmarshalValidationErrors(detail).Msgs) > 0
    THEN Join(SelectSeq(UnmarshalValidationErrors(detail).Msgs,
                        LAMBDA m : m # << >>), Text_sep)
    ELSE detail.text

\* An extraction that prefers the flat message member to the error member.
extractErrorMessage_MessageFirst(apiResp) ==
    LET fromError ==
            IF Len(apiResp.Error.text) = 0 THEN << >>
            ELSE IF ~UnmarshalNested(apiResp.Error).err
            THEN UnmarshalNested(apiResp.Error).Message
            ELSE IF ~UnmarshalString(apiResp.Error).err
            THEN UnmarshalString(apiResp.Error).s
            ELSE << >>
        m1 == IF apiResp.Message # << >> THEN apiResp.Message ELSE fromError
    IN  IF m1 = << >> THEN parseDetailMessage(apiResp.Detail) ELSE m1

\* parse.go:107-136
extractErrorMessage(apiResp) ==
    LET fromError ==
            IF Len(apiResp.Error.text) = 0 THEN << >>
            ELSE IF ~UnmarshalNested(apiResp.Error).err
            THEN UnmarshalNested(apiResp.Error).Message
            ELSE IF ~UnmarshalString(apiResp.Error).err
            THEN UnmarshalString(apiResp.Error).s
            ELSE << >>
        m1 == IF fromError = << >> THEN apiResp.Message ELSE fromError
    IN  IF m1 = << >> THEN parseDetailMessage(apiResp.Detail) ELSE m1

\* strconv.Atoi on a header value: an optional sign and decimal digits.
RECURSIVE DigitsValue(_, _)
DigitsValue(digits, acc) ==
    IF digits = << >> THEN acc
    ELSE DigitsValue(Tail(digits), 10 * acc + (Head(digits) - 48))
Atoi(str) ==
    LET signed == str # << >> /\ str[1] \in {43, 45}
        digits == IF signed THEN Tail(str) ELSE str
    IN  IF digits = << >> \/ \E i \in 1..Len(digits) : digits[i] \notin 48..57
        THEN [err |-> TRUE, n |-> 0]
        ELSE [err |-> FALSE,
              n |-> IF signed /\ str[1] = 45 THEN 0 - DigitsValue(digits, 0)
                    ELSE DigitsValue(digits, 0)]

DefaultRetryAfter == 60  \* retryAfter := 60 * time.Second

\* parse.go:168-178; header is the Retry-After value, << >> when absent.
parseRateLimitError(header) ==
    [type |-> "RateLimitError",
     RetryAfter |-> IF header # << >> /\ ~Atoi(header).err
                    THEN Atoi(header).n ELSE DefaultRetryAfter,
     Message |-> << >>]

\* http.StatusText
StatusText(code) ==
    CASE code = 400 -> <<66, 97, 100, 32, 82, 101, 113, 117, 101, 115, 116>>  \* "Bad Request"
      [] code = 401 -> <<85, 110, 97, 117, 116, 104, 111, 114, 105, 122, 101, 100>>  \* "Unauthorized"
      [] code = 403 -> <<70, 111, 114, 98, 105, 100, 100, 101, 110>>  \* "Forbidden"
      [] code = 404 -> <<78, 111, 116, 32, 70, 111, 117, 110, 100>>  \* "Not Found"
      [] code = 422 -> <<85, 110, 112, 114, 111, 99, 101, 115, 115, 97, 98, 108, 101, 32, 69, 110, 116, 105, 116, 121>>  \* "Unprocessable Entity"
      [] code = 429 -> <<84, 111, 111, 32, 77, 97, 110, 121, 32, 82, 101, 113, 117, 101, 115, 116, 115>>  \* "Too Many Requests"
      [] code = 500 -> <<73, 110, 116, 101, 114, 110, 97, 108, 32, 83, 101, 114, 118, 101, 114, 32, 69, 114, 114, 111, 114>>  \* "Internal Server Error"
      [] code = 503 -> <<83, 101, 114, 118, 105, 99, 101, 32, 85, 110, 97, 118, 97, 105, 108, 97, 98, 108, 101>>  \* "Service Unavailable"
      [] OTHER -> << >>

StatusUnauthorized == 401
StatusForbidden == 403

\* A classifier that gives up on the kind when the body does not decode.
ParseAPIError_BodyFirst(statusCode, header, body) ==
    LET apiResp == UnmarshalBody(body)
        message == IF apiResp.err THEN body.text
                   ELSE IF extractErrorMessage(apiResp) = << >>
                   THEN body.text ELSE extractErrorMessage(apiResp)
    IN  IF statusCode = StatusTooManyRequests THEN parseRateLimitError(header)
        ELSE IF apiResp.err \/ statusCode \notin {StatusUnauthorized, StatusForbidden}
        THEN [type |-> "APIError", StatusCode |-> statusCode,
              Code |-> StatusText(statusCode),
              Message |-> SanitizeMessage(message), Source |-> << >>]
        ELSE [type |-> "AuthError",
              Reason |-> IF statusCode = StatusUnauthorized
                         THEN "invalid" ELSE "forbidden",
              Message |-> SanitizeMessage(message), StatusCode |-> statusCode]

\* parse.go:45-104 for a non-nil response with this status code, Retry-After
\* header and body.
ParseAPIError(statusCode, header, body) ==
    LET apiResp == UnmarshalBody(body)
        extracted == IF apiResp.err THEN << >> ELSE extractErrorMessage(apiResp)
        message == IF extracted = << >> /\ Len(body.text) > 0
                   THEN body.text ELSE extracted
        nested == UnmarshalNested(apiResp.Error)
        known == Len(apiResp.Error.text) > 0 /\ ~nested.err
        code == IF known THEN nested.Code ELSE << >>
        source == IF known THEN nested.Source ELSE << >>
    IN  IF statusCode = StatusTooManyRequests THEN parseRateLimitError(header)
        ELSE IF statusCode = StatusUnauthorized
        THEN [type |-> "AuthError", Reason |-> "invalid",
              Message |-> SanitizeMessage(message), StatusCode |-> statusCode]
        ELSE IF statusCode = StatusForbidden
        THEN [type |-> "AuthError", Reason |-> "forbidden",
              Message |-> SanitizeMessage(message), StatusCode |-> statusCode]
        ELSE [type |-> "APIError", StatusCode |-> statusCode,
              Code |-> IF code = << >> THEN StatusText(statusCode) ELSE code,
              Message |-> SanitizeMessage(message), Source |-> source]

\* parse.go:46-48: there is no response at all.
ParseAPIErrorNil ==
    [type |-> "APIError", StatusCode |-> 0, Code |-> << >>,
     Message |-> Text_nil_response, Source |-> << >>]

\* A retry test without the upper end of the 5xx range.
IsRetryable_NoUpperBound(e) ==
    IF e.type = "RateLimitError" THEN TRUE
    ELSE IF e.type = "APIError" THEN e.StatusCode >= 500
    ELSE FALSE

\* errors.go:88-98
IsRetryable(e) ==
    IF e.type = "RateLimitError" THEN TRUE
    ELSE IF e.type = "APIError" THEN e.StatusCode >= 500 /\ e.StatusCode < 600
    ELSE FALSE

----------------------------------------------------------------------------
(* Direct calls of the retry policy, as retry_test.go makes them *)

\* A run makes one call of a function, or two Backoff calls in a row.
NoPure == [op |-> "none"]

\* Status codes and methods handed to ShouldRetry.
PolicyStatuses == {200, 204, 301, 400, 404, 428, 429, 430, 499, 500, 503, 599, 600}
PolicyMethods == Methods \cup {"TRACE", "CONNECT"}

CallShouldRetry(statusCode, method, attempt) ==
    /\ pure.op = "none"
    /\ pure' = [op |-> "ShouldRetry", statusCode |-> statusCode,
                method |-> method, attempt |-> attempt,
                val |-> ShouldRetry(retryConfig, statusCode, method, attempt)]
    /\ UNCHANGED <<cb, retryConfig, now, call, active, ncalls, hist, obs, dwr, sync>>

\* j is the draw of the random source; Backoff reads it only when Jitter is set.
\* prev keeps the attempt and result of the Backoff call made just before.
CallBackoff(attempt, j) ==
    /\ pure.op = "none" \/ (pure.op = "Backoff" /\ pure.prev.attempt < 0)
    /\ pure' = [op |-> "Backoff", attempt |-> attempt, j |-> j,
                val |-> Backoff(retryConfig, attempt, j),
                prev |-> IF pure.op = "Backoff"
                         THEN [attempt |-> pure.attempt, val |-> pure.val]
                         ELSE [attempt |-> -1, val |-> 0]]
    /\ UNCHANGED <<cb, retryConfig, now, call, active, ncalls, hist, obs, dwr, sync>>

----------------------------------------------------------------------------
(* Direct calls of the error classifier, as parse_test.go makes them *)

Text_boom == <<98, 111, 111, 109>>  \* "boom"
Text_denied == <<100, 101, 110, 105, 101, 100>>  \* "denied"
Text_flat == <<102, 108, 97, 116>>  \* "flat"
Text_bad == <<98, 97, 100>>  \* "bad"
Text_a1 == <<97, 49>>  \* "a1"
Text_b2 == <<98, 50>>  \* "b2"
Text_E1 == <<69, 49>>  \* "E1"
Text_42 == <<52, 50>>  \* "42"
Text_30 == <<51, 48>>  \* "30"
Text_minus5 == <<45, 53>>  \* "-5"
Text_oops == <<111, 111, 112, 115>>  \* "oops"
Text_array == <<91, 49, 93>>  \* "[1]"

\* What the members error, message and detail of a body may hold.
ErrorFields ==
    {JAbsent, JStr(Text_denied), JObj(Text_E1, Text_boom, Text_flat),
     JObj(Text_E1, << >>, << >>), JNum(Text_42)}
MessageFields == {JAbsent, JStr(Text_flat), JNum(Text_42)}
DetailFields ==
    {JAbsent, JStr(Text_bad), JArr(<<Text_a1, Text_b2>>), JArr(<<Text_a1, << >> >>),
     JArr(<< << >> >>), JArr(<< >>), JObj(Text_E1, Text_bad, << >>), JNum(Text_42)}

Bodies ==
    {BodyObject(e, m, d) : e \in ErrorFields, m \in MessageFields, d \in DetailFields}
    \cup {BodyText(<< >>), BodyText(Text_oops), BodyText(Text_array)}

RetryAfterHeaders == {<< >>, Text_30, Text_oops, Text_minus5}

\* Status codes of the classified responses; Nil stands for a nil response.
ParseStatuses == {400, 401, 403, 404, 422, 429, 500, 599}

CallParseAPIError(resp, header, body) ==
    /\ pure.op = "none"
    /\ pure' = [op |-> "ParseAPIError", resp |-> resp, header |-> header,
                body |-> body,
                val |-> IF resp = Nil THEN ParseAPIErrorNil
                        ELSE ParseAPIError(resp, header, body)]
    /\ UNCHANGED <<cb, retryConfig, now, call, active, ncalls, hist, obs, dwr, sync>>

\* Bytes of the messages handed to SanitizeMessage: NUL, TAB, LF, CR, ESC, US,
\* space, "a", "~" and DEL.
SanitizeBytes == {0, 9, 10, 13, 27, 31, 32, 97, 126, 127}

RECURSIVE SeqsUpTo(_, _)
SeqsUpTo(S, n) ==
    IF n = 0 THEN {<< >>}
    ELSE LET shorter == SeqsUpTo(S, n - 1)
         IN  shorter \cup {Append(q, x) : q \in shorter, x \in S}

\* Short messages of every shape, and messages around the length limit.
SanitizeInputs ==
    SeqsUpTo(SanitizeBytes, MaxMsgLen)
    \cup {[i \in 1..n |-> 97] : n \in {maxLen - 1, maxLen, maxLen + 1, maxLen + 100}}
    \cup {[i \in 1..(maxLen + 1) |-> IF i = maxLen THEN r ELSE 97] : r \in SanitizeBytes}

CallSanitizeMessage(msg) ==
    /\ pure.op = "none"
    /\ pure' = [op |-> "SanitizeMessage", msg |-> msg, val |-> SanitizeMessage(msg)]
    /\ UNCHANGED <<cb, retryConfig, now, call, active, ncalls, hist, obs, dwr, sync>>

\* Error values handed to IsRetryable.
ErrorSamples ==
    {[type |-> "APIError", StatusCode |-> st, Code |-> StatusText(st),
      Message |-> Text_boom, Source |-> << >>] :
        st \in {0, 200, 400, 429, 499, 500, 503, 599, 600}}
    \cup {parseRateLimitError(h) : h \in RetryAfterHeaders}
    \cup {[type |-> "AuthError", Reason |-> r, Message |-> Text_denied,
           StatusCode |-> StatusUnauthorized] : r \in {"invalid", "expired"}}
    \cup {[type |-> "ValidationError", Field |-> Text_flat, Message |-> Text_bad],
          [type |-> "CircuitBreakerError", OpenUntil |-> 1],
          [type |-> "error"], [type |-> "nil"]}

CallIsRetryable(e) ==
    /\ pure.op = "none"
    /\ pure' = [op |-> "IsRetryable", e |-> e, val |-> IsRetryable(e)]
    /\ UNCHANGED <<cb, retryConfig, now, call, active, ncalls, hist, obs, dwr, sync>>

----------------------------------------------------------------------------
(* DoWithRetry of retry.go, the retry loop with a context *)

DWRNoReturn == [resp |-> Nil, err |-> "unset"]

\* pc, method, attempt, ctx, resp, err and ret are the call's position, the
\* request's method, the loop counter, the state of ctx, the loop's resp and
\* err and the returned pair; wake is the time the backoff timer fires. The
\* rest is auxiliary: calls counts the client.Do calls, late those made with
\* ctx already cancelled, cancelCalls and cancelPc are calls and pc at the
\* time of cancellation.
IdleDWR ==
    [pc |-> "idle", method |-> "GET", attempt |-> 0, ctx |-> "live",
     resp |-> Nil, err |-> FALSE, ret |-> DWRNoReturn, wake |-> ZeroTime,
     calls |-> 0, late |-> 0, cancelCalls |-> 0, cancelPc |-> "none"]

\* A caller calls DoWithRetry; its context may already be cancelled.
DWRStart(method, ctx) ==
    /\ dwr.pc \in {"idle", "done"}
    /\ dwr' = [IdleDWR EXCEPT !.pc = "head", !.method = method, !.ctx = ctx,
                              !.cancelPc = IF ctx = "cancelled" THEN "head" ELSE @]
    /\ UNCHANGED <<cb, retryConfig, now, call, active, ncalls, hist, obs, pure, sync>>

\* The caller cancels ctx (or its deadline passes) while the call runs.
DWRCancel ==
    /\ dwr.pc \in {"head", "sleep"}
    /\ dwr.ctx = "live"
    /\ dwr' = [dwr EXCEPT !.ctx = "cancelled", !.cancelCalls = dwr.calls,
                          !.cancelPc = dwr.pc]
    /\ UNCHANGED <<cb, retryConfig, now, call, active, ncalls, hist, obs, pure, sync>>

\* A wait that only the timer ends.
sleepWithContext_Blocking(ctxDone, t, wake) == t >= wake

\* retry.go:128-133: whether the select can proceed at time t.
sleepWithContext(ctxDone, t, wake) == ctxDone \/ t >= wake

\* retry.go:88-121: one iteration of the loop; out is what client.Do answers
\* and j the jitter draw of Backoff.
DWRAttempt(out, j) ==
    LET sent == [dwr EXCEPT !.calls = @ + 1,
                            !.late = IF dwr.ctx = "cancelled" THEN @ + 1 ELSE @,
                            !.resp = out.resp, !.err = out.err]
        asleep == [sent EXCEPT !.pc = "sleep",
                               !.wake = now + Backoff(retryConfig, dwr.attempt, j)]
    IN  /\ dwr.pc = "head"
        /\ dwr.attempt <= retryConfig.MaxRetries
        /\ dwr' =
              IF dwr.ctx = "cancelled"
              THEN [dwr EXCEPT !.pc = "done",
                               !.ret = [resp |-> Nil, err |-> "context"]]
              ELSE IF out.err
              THEN IF ~isIdempotent(dwr.method)
                   THEN [sent EXCEPT !.pc = "done",
                                     !.ret = [resp |-> Nil, err |-> "network"]]
                   ELSE IF dwr.attempt < retryConfig.MaxRetries
                        THEN asleep
                        ELSE [sent EXCEPT !.pc = "done",
                                          !.ret = [resp |-> Nil, err |-> "network"]]
              ELSE IF ~ShouldRetry(retryConfig, out.resp, dwr.method, dwr.attempt)
                   THEN [sent EXCEPT !.pc = "done",
                                     !.ret = [resp |-> out.resp, err |-> "nil"]]
                   ELSE IF dwr.attempt < retryConfig.MaxRetries
                        THEN asleep
                        ELSE [sent EXCEPT !.attempt = @ + 1]
        /\ UNCHANGED <<cb, retryConfig, now, call, active, ncalls, hist, obs, pure, sync>>

\* retry.go:104-105, 120-122: sleepWithContext returns, attempt++.
DWRWake ==
    /\ dwr.pc = "sleep"
    /\ sleepWithContext(dwr.ctx = "cancelled", now, dwr.wake)
    /\ dwr' = [dwr EXCEPT !.pc = "head", !.attempt = @ + 1]
    /\ UNCHANGED <<cb, retryConfig, now, call, active, ncalls, hist, obs, pure, sync>>

\* retry.go:88, 124: the loop condition fails, return resp, err.
DWRExit ==
    /\ dwr.pc = "head"
    /\ dwr.attempt > retryConfig.MaxRetries
    /\ dwr' = [dwr EXCEPT !.pc = "done",
                          !.ret = [resp |-> dwr.resp,
                                   err |-> IF dwr.err THEN "network" ELSE "nil"]]
    /\ UNCHANGED <<cb, retryConfig, now, call, active, ncalls, hist, obs, pure, sync>>

-----------------------------------------------------------------------------
(* The breaker's methods step by step, under cb.mu (part_021) *)

\* What a goroutine is doing inside a breaker method: op the method, pc its
\* position, tmp the value of failures it has loaded, res and at the result
\* it has computed and the time.Now() it used, from the state at Lock().
IdleOp ==
    [op |-> "none", pc |-> "idle", tmp |-> 0, res |-> "none", at |-> ZeroTime,
     from |-> "none"]

\* cb.mu: w is the goroutine holding the write lock (Nil: none), r the
\* goroutines holding read locks; g the goroutines, n the calls made, ov
\* the calls made while another goroutine was writing.
IdleSync ==
    [w |-> Nil, r |-> {}, g |-> [p \in Procs |-> IdleOp], n |-> 0, ov |-> 0]

Readers == {"Allow", "State", "OpenUntil"}
Writers == {"RecordSuccess", "RecordFailure"}

\* A mutex that never makes anybody wait.
CanLock_Always(m) == TRUE

\* sync.RWMutex: Lock() waits for the writer and all readers to leave,
\* RLock() waits for the writer only.
CanLock(m) == m.w = Nil /\ m.r = {}

CanRLock(m) == m.w = Nil

\* A goroutine calls a method of the breaker.
BreakerCall(p, op) ==
    /\ sync.g[p].pc = "idle"
    /\ sync.n < MaxOps
    /\ sync' = [sync EXCEPT !.g[p] = [IdleOp EXCEPT !.op = op, !.pc = "wait"],
                            !.n = @ + 1,
                            !.ov = IF sync.w # Nil THEN @ + 1 ELSE @]
    /\ UNCHANGED <<cb, retryConfig, now, call, active, ncalls, hist, obs, dwr, pure>>

\* part_021:78, 87: cb.mu.Lock()
MuLock(p) ==
    /\ sync.g[p].pc = "wait"
    /\ sync.g[p].op \in Writers
    /\ CanLock(sync)
    /\ sync' = [sync EXCEPT !.w = p,
                            !.g[p].from = State(cb, now),
                            !.g[p].pc = IF sync.g[p].op = "RecordFailure"
                                        THEN "load" ELSE "clearF"]
    /\ UNCHANGED <<cb, retryConfig, now, call, active, ncalls, hist, obs, dwr, pure>>

\* part_021:50, 59, 99: cb.mu.RLock()
MuRLock(p) ==
    /\ sync.g[p].pc = "wait"
    /\ sync.g[p].op \in Readers
    /\ CanRLock(sync)
    /\ sync' = [sync EXCEPT !.r = @ \cup {p},
                            !.g[p].pc = IF sync.g[p].op = "OpenUntil"
                                        THEN "readU" ELSE "readF"]
    /\ UNCHANGED <<cb, retryConfig, now, call, active, ncalls, hist, obs, dwr, pure>>

\* part_021:65: stateUnlocked reads cb.failures
ReadFailures(p) ==
    /\ sync.g[p].pc = "readF"
    /\ sync' = [sync EXCEPT !.g[p].tmp = cb.failures, !.g[p].pc = "readU"]
    /\ UNCHANGED <<cb, retryConfig, now, call, active, ncalls, hist, obs, dwr, pure>>

\* part_021:65-73, 54, 101: cb.openUntil is read and the result computed.
ReadOpenUntil(p) ==
    LET g == sync.g[p]
        state == IF g.tmp < cb.threshold THEN CircuitClosed
                 ELSE IF now > cb.openUntil THEN CircuitHalfOpen
                 ELSE CircuitOpen
        res == IF g.op = "OpenUntil" THEN cb.openUntil
               ELSE IF g.op = "State" THEN state
               ELSE state # CircuitOpen
    IN  /\ g.pc = "readU"
        /\ sync' = [sync EXCEPT !.g[p].res = res, !.g[p].at = now,
                                !.g[p].pc = "runlock"]
        /\ UNCHANGED <<cb, retryConfig, now, call, active, ncalls, hist, obs, dwr, pure>>

\* part_021:51, 60, 100: the deferred cb.mu.RUnlock(); the method returns.
MuRUnlock(p) ==
    /\ sync.g[p].pc = "runlock"
    /\ sync' = [sync EXCEPT !.r = @ \ {p}, !.g[p] = IdleOp]
    /\ obs' = [op |-> sync.g[p].op, val |-> sync.g[p].res]
    /\ UNCHANGED <<cb, retryConfig, now, call, active, ncalls, hist, dwr, pure>>

\* part_021:90, cb.failures++ : the load
LoadFailures(p) ==
    /\ sync.g[p].pc = "load"
    /\ sync' = [sync EXCEPT !.g[p].tmp = cb.failures, !.g[p].pc = "store"]
    /\ UNCHANGED <<cb, retryConfig, now, call, active, ncalls, hist, obs, dwr, pure>>

\* part_021:90, cb.failures++ : the store
StoreFailures(p) ==
    /\ sync.g[p].pc = "store"
    /\ cb' = [cb EXCEPT !.failures = sync.g[p].tmp + 1]
    /\ sync' = [sync EXCEPT !.g[p].pc = "arm"]
    /\ UNCHANGED <<retryConfig, now, call, active, ncalls, hist, obs, dwr, pure>>

\* part_021:92-94
ArmOpenUntil(p) ==
    /\ sync.g[p].pc = "arm"
    /\ cb' = [cb EXCEPT !.openUntil = IF cb.failures >= cb.threshold
                                      THEN now + cb.resetPeriod ELSE @]
    /\ sync' = [sync EXCEPT !.g[p].at = now, !.g[p].pc = "unlock"]
    /\ UNCHANGED <<retryConfig, now, call, active, ncalls, hist, obs, dwr, pure>>

\* part_021:81
ClearFailures(p) ==
    /\ sync.g[p].pc = "clearF"
    /\ cb' = [cb EXCEPT !.failures = 0]
    /\ sync' = [sync EXCEPT !.g[p].pc = "clearU"]
    /\ UNCHANGED <<retryConfig, now, call, active, ncalls, hist, obs, dwr, pure>>

\* part_021:82
ClearOpenUntil(p) ==
    /\ sync.g[p].pc = "clearU"
    /\ cb' = [cb EXCEPT !.openUntil = ZeroTime]
    /\ sync' = [sync EXCEPT !.g[p].pc = "unlock"]
    /\ UNCHANGED <<retryConfig, now, call, active, ncalls, hist, obs, dwr, pure>>

\* part_021:79, 88: the deferred cb.mu.Unlock(); the call is complete.
MuUnlock(p) ==
    /\ sync.g[p].pc = "unlock"
    /\ sync' = [sync EXCEPT !.w = Nil, !.g[p] = IdleOp]
    /\ hist' = IF sync.g[p].op = "RecordFailure"
               THEN HistFailure(hist, sync.g[p].at, sync.g[p].from)
               ELSE HistSuccess(hist, sync.g[p].from)
    /\ obs' = NoObs
    /\ UNCHANGED <<cb, retryConfig, now, call, active, ncalls, dwr, pure>>

----------------------------------------------------------------------------
(* Specifications *)

DefaultRetryConfig ==
    [MaxRetries |-> DefaultMaxRetries, InitialBackoff |-> DefaultInitialBackoff,
     MaxBackoff |-> DefaultMaxBackoff, Jitter |-> TRUE]

\* The thresholds the transport is run with: the tests' 1 and the default 5.
TransportThresholds == {1, DefaultThreshold}

\* One goroutine issuing RoundTrip calls one after the other.
Init ==
    /\ cb \in {NewCircuitBreaker(n, r) : n \in TransportThresholds, r \in 1..MaxReset}
    /\ retryConfig \in {[DefaultRetryConfig EXCEPT !.MaxRetries = n] :
                            n \in (-1)..MaxRetriesBound}
    /\ now = 1
    /\ call = [p \in Procs |-> IdleCall]
    /\ active = {1}
    /\ ncalls = 0
    /\ hist = NoHist
    /\ obs = NoObs
    /\ dwr = IdleDWR
    /\ pure = NoPure
    /\ sync = IdleSync

Next ==
    \/ Tick
    \/ \E p \in Procs, m \in Methods, h \in CallerHeaders : Start(p, m, h, NoBody)
    \/ \E p \in Procs : RoundTripDeny(p)
    \/ \E p \in Procs : RoundTripFail(p)
    \/ \E p \in Procs, rnd \in RandReads : RoundTripAdmit(p, rnd)
    \/ \E p \in Procs, out \in Outcomes : DoWithRetryAttempt(p, out)
    \/ \E p \in Procs : DoWithRetrySleep(p)
    \/ \E p \in Procs : DoWithRetryExit(p)
    \/ \E p \in Procs : RoundTripRecord(p)

Spec == Init /\ [][Next]_vars

\* The breaker on its own, driven by direct method calls.
InitCB ==
    /\ cb \in {NewCircuitBreaker(n, r) : n \in 1..MaxThreshold, r \in 1..MaxReset}
    /\ retryConfig = DefaultRetryConfig
    /\ now = 1
    /\ call = [p \in Procs |-> IdleCall]
    /\ active = {}
    /\ ncalls = 0
    /\ hist = NoHist
    /\ obs = NoObs
    /\ dwr = IdleDWR
    /\ pure = NoPure
    /\ sync = IdleSync

NextCB ==
    \/ Tick
    \/ CallAllow
    \/ CallState
    \/ CallOpenUntil
    \/ CallRecordSuccess
    \/ CallRecordFailure

SpecCB == InitCB /\ [][NextCB]_vars

\* The breaker called by several goroutines at once, one statement a step.
InitLock ==
    /\ cb \in {NewCircuitBreaker(n, 1) : n \in 1..2}
    /\ retryConfig = DefaultRetryConfig
    /\ now = 1
    /\ call = [p \in Procs |-> IdleCall]
    /\ active = {}
    /\ ncalls = 0
    /\ hist = NoHist
    /\ obs = NoObs
    /\ dwr = IdleDWR
    /\ pure = NoPure
    /\ sync = IdleSync

NextLock ==
    \/ Tick
    \/ \E p \in Procs, op \in Readers \cup Writers : BreakerCall(p, op)
    \/ \E p \in Procs : MuLock(p)
    \/ \E p \in Procs : MuRLock(p)
    \/ \E p \in Procs : ReadFailures(p)
    \/ \E p \in Procs : ReadOpenUntil(p)
    \/ \E p \in Procs : MuRUnlock(p)
    \/ \E p \in Procs : LoadFailures(p)
    \/ \E p \in Procs : StoreFailures(p)
    \/ \E p \in Procs : ArmOpenUntil(p)
    \/ \E p \in Procs : ClearFailures(p)
    \/ \E p \in Procs : ClearOpenUntil(p)
    \/ \E p \in Procs : MuUnlock(p)

SpecLock == InitLock /\ [][NextLock]_vars

\* The transport with a caller that may cancel its request's context.
InitCancel ==
    /\ cb \in {NewCircuitBreaker(1, 1)}
    /\ retryConfig \in {[DefaultRetryConfig EXCEPT !.MaxRetries = n] : n \in {-1, 1}}
    /\ now = 1
    /\ call = [p \in Procs |-> IdleCall]
    /\ active = {1}
    /\ ncalls = 0
    /\ hist = NoHist
    /\ obs = NoObs
    /\ dwr = IdleDWR
    /\ pure = NoPure
    /\ sync = IdleSync

NextCancel ==
    \/ Next
    \/ \E p \in Procs : Cancel(p)

SpecCancel == InitCancel /\ [][NextCancel]_vars

\* The transport shared by several goroutines: every process of Procs calls
\* RoundTrip on the one client, their steps interleave.
ConcOutcomes == {o \in Outcomes : o.resp \in {200, 503}}

InitConc ==
    /\ cb \in {NewCircuitBreaker(1, 1)}
    /\ retryConfig \in {[DefaultRetryConfig EXCEPT !.MaxRetries = n] : n \in {-1, 1}}
    /\ now = 1
    /\ call = [p \in Procs |-> IdleCall]
    /\ active = Procs
    /\ ncalls = 0
    /\ hist = NoHist
    /\ obs = NoObs
    /\ dwr = IdleDWR
    /\ pure = NoPure
    /\ sync = IdleSync

NextConc ==
    \/ Tick
    \/ \E p \in Procs : Start(p, "GET", << >>, NoBody)
    \/ \E p \in Procs : RoundTripDeny(p)
    \/ \E p \in Procs : RoundTripFail(p)
    \/ \E p \in Procs, rnd \in RandReads : RoundTripAdmit(p, rnd)
    \/ \E p \in Procs, out \in ConcOutcomes : DoWithRetryAttempt(p, out)
    \/ \E p \in Procs : DoWithRetrySleep(p)
    \/ \E p \in Procs : DoWithRetryExit(p)
    \/ \E p \in Procs : RoundTripRecord(p)

SpecConc == InitConc /\ [][NextConc]_vars

\* The transport with callers whose requests carry a body.
InitBody ==
    /\ cb \in {NewCircuitBreaker(1, 1)}
    /\ retryConfig \in {[DefaultRetryConfig EXCEPT !.MaxRetries = n] : n \in {-1, 1}}
    /\ now = 1
    /\ call = [p \in Procs |-> IdleCall]
    /\ active = {1}
    /\ ncalls = 0
    /\ hist = NoHist
    /\ obs = NoObs
    /\ dwr = IdleDWR
    /\ pure = NoPure
    /\ sync = IdleSync

NextBody ==
    \/ Next
    \/ \E p \in Procs, m \in {"GET", "POST"}, b \in RequestBodies :
            Start(p, m, << >>, b)

SpecBody == InitBody /\ [][NextBody]_vars

\* The retry policy on its own: configurations, then direct calls.
InitialBackoffs == {1, 3}
MaxBackoffs == {1, 4, 10}

InitRetry ==
    /\ cb = NewCircuitBreaker(DefaultThreshold, 1)
    /\ retryConfig \in [MaxRetries : (-1)..MaxRetriesBound,
                         InitialBackoff : InitialBackoffs,
                         MaxBackoff : MaxBackoffs, Jitter : BOOLEAN]
    /\ now = 1
    /\ call = [p \in Procs |-> IdleCall]
    /\ active = {}
    /\ ncalls = 0
    /\ hist = NoHist
    /\ obs = NoObs
    /\ dwr = IdleDWR
    /\ pure = NoPure
    /\ sync = IdleSync

NextRetry ==
    \/ \E st \in PolicyStatuses, m \in PolicyMethods, a \in 0..MaxAttempt :
            CallShouldRetry(st, m, a)
    \/ \E a \in 0..MaxAttempt, j \in JitterDraws : CallBackoff(a, j)

SpecRetry == InitRetry /\ [][NextRetry]_vars

\* DoWithRetry on its own, with a clock and a caller that may cancel.
InitDWR ==
    /\ cb = NewCircuitBreaker(DefaultThreshold, 1)
    /\ retryConfig \in [MaxRetries : (-1)..MaxRetriesBound, InitialBackoff : {1},
                         MaxBackoff : {1, 2}, Jitter : BOOLEAN]
    /\ now = 1
    /\ call = [p \in Procs |-> IdleCall]
    /\ active = {}
    /\ ncalls = 0
    /\ hist = NoHist
    /\ obs = NoObs
    /\ dwr = IdleDWR
    /\ pure = NoPure
    /\ sync = IdleSync

NextDWR ==
    \/ Tick
    \/ \E m \in Methods, c \in {"live", "cancelled"} : DWRStart(m, c)
    \/ DWRCancel
    \/ \E out \in Outcomes, j \in JitterDraws : DWRAttempt(out, j)
    \/ DWRWake
    \/ DWRExit

SpecDWR == InitDWR /\ [][NextDWR]_vars

\* The error classifier on its own: one direct call per run.
InitErrors ==
    /\ cb = NewCircuitBreaker(DefaultThreshold, 1)
    /\ retryConfig = DefaultRetryConfig
    /\ now = 1
    /\ call = [p \in Procs |-> IdleCall]
    /\ active = {}
    /\ ncalls = 0
    /\ hist = NoHist
    /\ obs = NoObs
    /\ dwr = IdleDWR
    /\ pure = NoPure
    /\ sync = IdleSync

NextErrors ==
    \/ \E resp \in ParseStatuses \cup {Nil}, h \in RetryAfterHeaders, b \in Bodies :
            CallParseAPIError(resp, h, b)
    \/ \E msg \in SanitizeInputs : CallSanitizeMessage(msg)
    \/ \E e \in ErrorSamples : CallIsRetryable(e)

SpecErrors == InitErrors /\ [][NextErrors]_vars

----------------------------------------------------------------------------
(* Properties *)

Is5xx(o) == ~o.err /\ o.resp >= 500 /\ o.resp <= 599
Is429(o) == ~o.err /\ o.resp = 429
\* What the transport hands back for the outcome o of its last attempt.
Returned(o) == IF o.err THEN ReturnErr ELSE ReturnResp(o.resp)
\* The outcomes the retry loop retries for a GET, HEAD or OPTIONS request.
Retryable(o) == o.err \/ Is429(o) \/ Is5xx(o)

LowerHex == {"0", "1", "2", "3", "4", "5", "6", "7",
             "8", "9", "a", "b", "c", "d", "e", "f"}
IsHex64(h) == Len(h) = 64 /\ \A i \in 1..Len(h) : h[i] \in LowerHex

\* C1: for a POST, PUT, PATCH or DELETE request a second or later attempt is
\* sent only when the attempt right before it returned 429; after a 5xx or a
\* network error no further attempt is made and that response or error is
\* what RoundTrip returns, for every MaxRetries >= 0.
C1_MutatingRetriesOnly429 ==
    /\ [][\A p \in Procs :
            (/\ call[p].req.Method \in Mutating
             /\ call[p].calls >= 1
             /\ call'[p].calls = call[p].calls + 1)
            => Is429(call[p].last)]_vars
    /\ [](\A p \in Procs :
            (/\ call[p].req.Method \in Mutating
             /\ call[p].calls >= 1
             /\ (call[p].last.err \/ Is5xx(call[p].last)))
            => /\ call[p].pc \in {"record", "done"}
               /\ call[p].pc = "done" => call[p].ret = Returned(call[p].last))

\* A POST-like call that was retried after a 429 and then returned a 5xx.
C1_Witness ==
    \E p \in Procs :
        /\ call[p].req.Method \in Mutating
        /\ call[p].pc = "done"
        /\ call[p].calls >= 2
        /\ Is5xx(call[p].last)
        /\ call[p].ret = ReturnResp(call[p].last.resp)

\* C2: when Allow() is false at the start of RoundTrip, the call returns a nil
\* response with a CircuitBreakerError and never calls the underlying
\* transport.
C2_DeniedCallTouchesNoNetwork ==
    \A p \in Procs :
        call[p].admitted = "no"
        => /\ call[p].calls = 0
           /\ call[p].pc \in {"denied", "done"}
           /\ call[p].pc = "done"
                => /\ call[p].ret.resp = Nil
                   /\ call[p].ret.err = "circuit"

\* A call that was denied and has returned.
C2_Witness ==
    \E p \in Procs :
        /\ call[p].admitted = "no"
        /\ call[p].pc = "done"
        /\ call[p].ret.err = "circuit"

\* C3: with no RecordSuccess so far, Allow() returns true after k < threshold
\* RecordFailure calls (k = 0 included) and false once threshold many have been
\* made, as long as the reset period since the latest one has not elapsed.
C3_OpensAtThreshold ==
    (obs.op = "Allow" /\ ~hist.hadSuccess)
    => /\ hist.fsince < cb.threshold => obs.val = TRUE
       /\ (hist.fsince >= cb.threshold
           /\ now <= hist.lastFailAt + cb.resetPeriod) => obs.val = FALSE

\* Allow() answers false right after the threshold-th failure.
C3_Witness ==
    /\ obs.op = "Allow"
    /\ ~hist.hadSuccess
    /\ hist.fsince = cb.threshold
    /\ cb.threshold >= 2
    /\ obs.val = FALSE

\* C4: once the breaker has opened, time alone makes it usable again: when the
\* clock is past openUntil and no Record* call was made since the failure that
\* opened it, Allow() returns true and State() returns half-open.
C4_HalfOpenByTimeAlone ==
    (/\ hist.fsince >= cb.threshold
     /\ hist.last = "RecordFailure"
     /\ now > hist.lastFailAt + cb.resetPeriod)
    => /\ cb.openUntil = hist.lastFailAt + cb.resetPeriod
       /\ obs.op = "Allow" => obs.val = TRUE
       /\ obs.op = "State" => obs.val = CircuitHalfOpen

\* State() answers half-open after the reset period, no Record* call since.
C4_Witness ==
    /\ hist.fsince >= cb.threshold
    /\ hist.last = "RecordFailure"
    /\ now > hist.lastFailAt + cb.resetPeriod
    /\ obs.op = "State"
    /\ obs.val = CircuitHalfOpen

\* C5: RecordSuccess() in any state (closed with failures, open, half-open)
\* sets failures to 0 and clears openUntil, so the breaker is closed right after
\* it, and Allow() stays true until threshold many further RecordFailure calls
\* have been made.
C5_SuccessResets ==
    /\ hist.last = "RecordSuccess"
        => /\ cb.failures = 0
           /\ cb.openUntil = ZeroTime
           /\ State(cb, now) = CircuitClosed
    /\ (hist.hadSuccess /\ obs.op = "Allow")
        => /\ hist.fsince < cb.threshold => obs.val = TRUE
           /\ (hist.fsince >= cb.threshold
               /\ now <= hist.lastFailAt + cb.resetPeriod) => obs.val = FALSE

\* A success recorded while open, then threshold - 1 failures: still allowed.
C5_Witness ==
    /\ hist.hadSuccess
    /\ hist.succFrom = CircuitOpen
    /\ cb.threshold >= 2
    /\ hist.fsince = cb.threshold - 1
    /\ obs.op = "Allow"
    /\ obs.val = TRUE

\* C6: when an admitted RoundTrip has finished, the breaker update it made is a
\* failure if the final outcome is a network error or a status >= 500, and a
\* success for every final status below 500 (429 included).
C6_BreakerFollowsFinalOutcome ==
    \A p \in Procs :
        (call[p].pc = "done" /\ call[p].admitted = "yes")
        => IF call[p].last.err \/ call[p].last.resp >= 500
           THEN call[p].rec = "failure" /\ hist.last = "RecordFailure"
                /\ cb.failures >= 1
           ELSE call[p].rec = "success" /\ hist.last = "RecordSuccess"
                /\ cb.failures = 0

\* A call that ended on status 500 exactly and recorded a failure.
C6_Witness ==
    \E p \in Procs :
        /\ call[p].pc = "done"
        /\ call[p].admitted = "yes"
        /\ call[p].last = [resp |-> 500, err |-> FALSE]
        /\ call[p].rec = "failure"

\* C7: a GET, HEAD or OPTIONS request goes on to another attempt only after a
\* retryable outcome (5xx, 429, network error); if every attempt is retryable it
\* is attempted exactly MaxRetries + 1 times, otherwise it stops at the first
\* attempt that is not; the last response or error is what is returned.
C7_IdempotentAttempts ==
    \A p \in Procs :
        (call[p].req.Method \in Idempotent /\ retryConfig.MaxRetries >= 0
         /\ call[p].admitted = "yes")
        => /\ call[p].calls <= retryConfig.MaxRetries + 1
           /\ (call[p].pc = "sleep" \/ (call[p].pc = "loop" /\ call[p].calls >= 1))
                => /\ Retryable(call[p].last)
                   /\ call[p].calls <= retryConfig.MaxRetries
           /\ call[p].pc \in {"record", "done"}
                => /\ call[p].calls >= 1
                   /\ Retryable(call[p].last)
                        => call[p].calls = retryConfig.MaxRetries + 1
                   /\ call[p].calls < retryConfig.MaxRetries + 1
                        => ~Retryable(call[p].last)
           /\ call[p].pc = "done" => call[p].ret = Returned(call[p].last)

\* Persistent 503 on GET with MaxRetries = 3: four attempts, 503 returned.
C7_Witness ==
    \E p \in Procs :
        /\ call[p].req.Method = "GET"
        /\ retryConfig.MaxRetries = 3
        /\ call[p].pc = "done"
        /\ call[p].outs = {[resp |-> 503, err |-> FALSE]}
        /\ call[p].calls = 4
        /\ call[p].ret = ReturnResp(503)

\* The case of C8: the first and only call, a GET answered by 503 four times,
\* on a fresh breaker with threshold 5 and MaxRetries 3, has returned.
C8_Case(p) ==
    /\ ncalls = 1
    /\ call[p].pc = "done"
    /\ call[p].req.Method = "GET"
    /\ cb.threshold = DefaultThreshold
    /\ retryConfig.MaxRetries = DefaultMaxRetries
    /\ call[p].calls = 4
    /\ call[p].outs = {[resp |-> 503, err |-> FALSE]}

\* C8 as stated: after that call the failure count is 4, one per attempt, and
\* the breaker is closed.
C8_Original ==
    \A p \in Procs :
        C8_Case(p) => cb.failures = 4 /\ State(cb, now) = CircuitClosed

\* C8 amended: after that call the failure count is 1, one per RoundTrip call,
\* and the breaker is closed.
C8_OneFailurePerCall ==
    \A p \in Procs :
        C8_Case(p) => cb.failures = 1 /\ State(cb, now) = CircuitClosed

C8_Witness ==
    \E p \in Procs : C8_Case(p) /\ cb.failures = 1

\* C9: the Idempotency-Key value is the same on every attempt of one call: it
\* is fixed before the retry loop and every cloned request handed to the
\* underlying transport carries exactly that value.
C9_KeyStableAcrossAttempts ==
    \A p \in Procs :
        /\ call[p].sent \subseteq {call[p].req.Header}
        /\ call[p].keygen = "ok" => call[p].req.Header # call[p].hdr0
        /\ call[p].keygen # "ok" => call[p].req.Header = call[p].hdr0

\* Two or more attempts of a call with a generated key, all carrying it.
C9_Witness ==
    \E p \in Procs :
        /\ call[p].keygen = "ok"
        /\ call[p].calls >= 2
        /\ call[p].sent = {call[p].req.Header}
        /\ Len(call[p].req.Header) = 64

\* C10 as stated: every attempt of a POST, PUT, PATCH or DELETE request carries
\* a key of exactly 64 lowercase hex characters, and the transport adds no key
\* to other requests.
C10_Original ==
    \A p \in Procs :
        /\ call[p].req.Method \in Mutating
            => \A h \in call[p].sent : IsHex64(h)
        /\ ~call[p].req.Method \in Mutating
            => \A h \in call[p].sent : h = call[p].hdr0

\* C10 amended: every attempt of a POST, PUT, PATCH or DELETE request whose
\* caller set no Idempotency-Key carries a key of exactly 64 lowercase hex
\* characters when key generation succeeded and no key when it failed; a key
\* set by the caller is sent as it is; the transport adds no key to other
\* requests.
C10_KeyFormat ==
    \A p \in Procs : \A h \in call[p].sent :
        IF call[p].req.Method \in Mutating
        THEN /\ call[p].hdr0 # << >> => h = call[p].hdr0 /\ call[p].keygen = "none"
             /\ (call[p].hdr0 = << >> /\ call[p].keygen = "ok") => IsHex64(h)
             /\ (call[p].hdr0 = << >> /\ call[p].keygen # "ok")
                    => h = << >> /\ call[p].keygen = "failed"
        ELSE h = call[p].hdr0 /\ call[p].keygen = "none"

\* A DELETE without a caller key was sent with a generated key that has letters.
C10_Witness ==
    \E p \in Procs : \E h \in call[p].sent :
        /\ call[p].req.Method = "DELETE"
        /\ call[p].hdr0 = << >>
        /\ IsHex64(h)
        /\ \E i \in 1..Len(h) : h[i] \in {"a", "b", "c", "d", "e", "f"}

\* C11: ShouldRetry(status, method, attempt) is true exactly when
\* attempt < MaxRetries and either status = 429 (whatever the method) or
\* 500 <= status < 600 with method GET, HEAD or OPTIONS; it is false for every
\* other input.
C11_ShouldRetryExactly ==
    pure.op = "ShouldRetry" =>
        (pure.val <=>
            /\ pure.attempt < retryConfig.MaxRetries
            /\ \/ pure.statusCode = 429
               \/ /\ 500 <= pure.statusCode
                  /\ pure.statusCode < 600
                  /\ pure.method \in {"GET", "HEAD", "OPTIONS"})

\* A POST is retried on 429 on the last attempt below MaxRetries.
C11_Witness ==
    /\ pure.op = "ShouldRetry"
    /\ pure.statusCode = 429
    /\ pure.method = "POST"
    /\ pure.attempt + 1 = retryConfig.MaxRetries
    /\ pure.val

\* C12: for every attempt number >= 0 and every jitter draw,
\* Backoff(attempt) <= MaxBackoff: jitter never pushes the returned delay
\* above the ceiling.
C12_BackoffBelowCeiling ==
    pure.op = "Backoff" => pure.val <= retryConfig.MaxBackoff

\* The exponential value is within the ceiling, the jittered one is above it,
\* and the ceiling is what Backoff returns.
C12_Witness ==
    /\ pure.op = "Backoff"
    /\ retryConfig.Jitter
    /\ pure.j > 0
    /\ retryConfig.InitialBackoff * 2^pure.attempt <= retryConfig.MaxBackoff
    /\ retryConfig.InitialBackoff * 2^pure.attempt * (4 * JitterSteps + pure.j)
            > retryConfig.MaxBackoff * 4 * JitterSteps
    /\ pure.val = retryConfig.MaxBackoff

MinOf(a, b) == IF a < b THEN a ELSE b

\* C13: with Jitter = false, Backoff(attempt) is exactly
\* min(InitialBackoff * 2^attempt, MaxBackoff) for every attempt >= 0, and so
\* never decreases from one attempt to the next.
C13_ExactWithoutJitter ==
    ~retryConfig.Jitter =>
        /\ pure.op = "Backoff" =>
                pure.val = MinOf(retryConfig.InitialBackoff * 2^pure.attempt,
                                 retryConfig.MaxBackoff)
        /\ (/\ pure.op = "Backoff"
             /\ pure.prev.attempt >= 0
             /\ pure.prev.attempt <= pure.attempt) => pure.prev.val <= pure.val

\* Without jitter the delay doubles below the ceiling and is the ceiling above.
C13_Witness ==
    /\ pure.op = "Backoff"
    /\ ~retryConfig.Jitter
    /\ pure.attempt >= 2
    /\ retryConfig.InitialBackoff * 2^pure.attempt > retryConfig.MaxBackoff
    /\ retryConfig.InitialBackoff * 2^(pure.attempt - 1) <= retryConfig.MaxBackoff
    /\ pure.val = retryConfig.MaxBackoff
    /\ pure.prev.attempt = pure.attempt - 1
    /\ pure.prev.val < pure.val

\* C14: in the transport's retry loop, once the caller's context is cancelled
\* no further attempt is started: a call that is in the loop or in a backoff
\* wait with a cancelled context makes no base.RoundTrip call any more.
C14_NoAttemptAfterCancel ==
    [][\A p \in Procs :
        (call[p].ctx = "cancelled" /\ call[p].pc \in {"loop", "sleep"})
        => call'[p].calls = call[p].calls]_vars

\* C15: DoWithRetry sends no attempt once ctx is cancelled; a backoff wait
\* under a cancelled ctx can end at once, whatever the timer; and a call whose
\* ctx was cancelled before an attempt or during a wait returns ctx's error
\* with no attempt sent after the cancellation.
C15_DoWithRetryHonoursCancel ==
    /\ dwr.late = 0
    /\ (dwr.pc = "sleep" /\ dwr.ctx = "cancelled") => ENABLED DWRWake
    /\ (dwr.pc = "done" /\ dwr.ctx = "cancelled" /\ retryConfig.MaxRetries >= 0)
        => /\ dwr.ret = [resp |-> Nil, err |-> "context"]
           /\ dwr.calls = dwr.cancelCalls

\* Cancelled during a backoff wait, the call has returned ctx's error before
\* the timer was due.
C15_Witness ==
    /\ dwr.pc = "done"
    /\ dwr.cancelPc = "sleep"
    /\ dwr.calls >= 1
    /\ now < dwr.wake
    /\ dwr.ret.err = "context"

\* C20: every RoundTrip call ends by returning (non-nil response, nil error)
\* or (nil response, non-nil error), for every RetryConfig, MaxRetries = 0 and
\* negative MaxRetries included; it never returns (nil, nil) and never
\* dereferences a nil response.
C20_ResponseOrError ==
    \A p \in Procs :
        /\ call[p].pc # "panic"
        /\ call[p].pc = "done" =>
                \/ call[p].ret.resp # Nil /\ call[p].ret.err = "nil"
                \/ call[p].ret.resp = Nil /\ call[p].ret.err \in {"network", "circuit"}

\* C16: ParseAPIError chooses the error kind from the status code alone,
\* whatever the body: 429 yields a RateLimitError, 401 an AuthError with
\* Reason "invalid", 403 an AuthError with Reason "forbidden", and every other
\* status an APIError whose StatusCode is the response status.
C16_KindFromStatusAlone ==
    (pure.op = "ParseAPIError" /\ pure.resp # Nil) =>
        IF pure.resp = 429 THEN pure.val.type = "RateLimitError"
        ELSE IF pure.resp = 401
        THEN pure.val.type = "AuthError" /\ pure.val.Reason = "invalid"
        ELSE IF pure.resp = 403
        THEN pure.val.type = "AuthError" /\ pure.val.Reason = "forbidden"
        ELSE pure.val.type = "APIError" /\ pure.val.StatusCode = pure.resp

\* A 401 whose body is not JSON is still an AuthError.
C16_Witness ==
    /\ pure.op = "ParseAPIError"
    /\ pure.resp = 401
    /\ pure.body.kind = "text"
    /\ pure.body.text # << >>
    /\ pure.val.type = "AuthError"
    /\ pure.val.Reason = "invalid"

\* The first non-empty text of a sequence of candidates, << >> if none.
RECURSIVE FirstNonEmpty(_)
FirstNonEmpty(cands) ==
    IF cands = << >> THEN << >>
    ELSE IF Head(cands) # << >> THEN Head(cands)
    ELSE FirstNonEmpty(Tail(cands))

NonEmptyMsgs(d) == SelectSeq(d.Msgs, LAMBDA m : m # << >>)

\* The candidates of the precedence: the nested error object's message, a
\* string-valued error member, the message member, the detail member.
FromErrorObject(b) == IF b.error.t = "obj" THEN b.error.Message ELSE << >>
FromErrorString(b) == IF b.error.t = "str" THEN b.error.s ELSE << >>
FromMessage(b) == IF b.message.t = "str" THEN b.message.s ELSE << >>
FromDetailStringOrArray(b) ==
    IF b.detail.t = "str" THEN b.detail.s
    ELSE IF b.detail.t = "arr" THEN Join(NonEmptyMsgs(b.detail), Text_sep)
    ELSE << >>
FromDetailOrItsText(b) ==
    IF b.detail.t = "str" THEN b.detail.s
    ELSE IF b.detail.t = "arr" /\ Len(b.detail.Msgs) > 0
    THEN Join(NonEmptyMsgs(b.detail), Text_sep)
    ELSE b.detail.text

\* The message as the claim has it: the body is JSON when it is an object.
ClaimedMessage(b) ==
    IF b.kind # "object" THEN b.text
    ELSE LET m == FirstNonEmpty(<<FromErrorObject(b), FromErrorString(b),
                                  FromMessage(b), FromDetailStringOrArray(b)>>)
         IN  IF m = << >> THEN b.text ELSE m

\* Whether the body decodes into the envelope: an object whose message
\* member, when present, is a string.
Decodes(b) == b.kind = "object" /\ b.message.t \in {"absent", "str"}

AmendedMessage(b) ==
    IF ~Decodes(b) THEN b.text
    ELSE LET m == FirstNonEmpty(<<FromErrorObject(b), FromErrorString(b),
                                  FromMessage(b), FromDetailOrItsText(b)>>)
         IN  IF m = << >> THEN b.text ELSE m

IsControl(r) == r < 32 \/ (r >= 127 /\ r <= 159)

\* The input cut to 500 bytes with "..." appended when it was longer.
Truncated(msg) ==
    IF Len(msg) > 500 THEN SubSeq(msg, 1, 500) \o <<46, 46, 46>> ELSE msg

\* C18: the output of SanitizeMessage contains no control character other
\* than newline, and it is the (possibly truncated) input without its control
\* characters: newlines and non-control characters are kept, in their order.
C18_NoControlCharacters ==
    pure.op = "SanitizeMessage" =>
        /\ \A i \in 1..Len(pure.val) : ~IsControl(pure.val[i]) \/ pure.val[i] = 10
        /\ pure.val = SelectSeq(Truncated(pure.msg),
                                LAMBDA r : ~IsControl(r) \/ r = 10)

\* C19: IsRetryable(err) is true for every RateLimitError, true for an
\* APIError exactly when 500 <= StatusCode <= 599, and false for every other
\* error value.
C19_IsRetryable ==
    pure.op = "IsRetryable" =>
        (pure.val <=>
            \/ pure.e.type = "RateLimitError"
            \/ /\ pure.e.type = "APIError"
               /\ 500 <= pure.e.StatusCode
               /\ pure.e.StatusCode <= 599)

\* An APIError just above the 5xx range is not retryable.
C19_Witness ==
    /\ pure.op = "IsRetryable"
    /\ pure.e.type = "APIError"
    /\ pure.e.StatusCode = 600
    /\ ~pure.val

\* The state as the claim has it: Half-Open from the instant now = openUntil.
ClaimedState(b, t) ==
    IF b.failures < b.threshold THEN CircuitClosed
    ELSE IF t < b.openUntil THEN CircuitOpen
    ELSE CircuitHalfOpen

\* C21: State() is Closed iff failures < threshold, Open iff failures >=
\* threshold and now < openUntil, Half-Open iff failures >= threshold and
\* now >= openUntil; Allow() is true unless the state is Open, so at the
\* instant now = openUntil the state is Half-Open and Allow() is true.
C21_StateFunction ==
    /\ obs.op = "State" => obs.val = ClaimedState(cb, now)
    /\ obs.op = "Allow" => (obs.val <=> ClaimedState(cb, now) # CircuitOpen)

\* C23: openUntil is non-zero only if failures >= threshold; failures is
\* lowered only by a RecordSuccess, which clears failures and openUntil
\* together; openUntil is written only by a RecordSuccess or by a
\* RecordFailure whose resulting count is at or above the threshold.
C23_OpenUntilOnlyAtThreshold ==
    /\ [](cb.openUntil # ZeroTime => cb.failures >= cb.threshold)
    /\ [][/\ cb'.failures < cb.failures =>
                /\ hist'.last = "RecordSuccess"
                /\ cb'.failures = 0
                /\ cb'.openUntil = ZeroTime
          /\ cb'.openUntil # cb.openUntil =>
                \/ hist'.last = "RecordSuccess" /\ cb'.failures = 0
                                                /\ cb'.openUntil = ZeroTime
                \/ /\ hist'.fsince = hist.fsince + 1
                   /\ cb'.failures = cb.failures + 1
                   /\ cb'.failures >= cb.threshold]_vars

\* A breaker that was reset by a success and has opened again.
C23_Witness ==
    /\ hist.hadSuccess
    /\ hist.succFrom # CircuitClosed
    /\ cb.openUntil # ZeroTime
    /\ cb.failures >= cb.threshold

\* C28: every RecordFailure whose resulting count is >= threshold sets
\* openUntil to now + resetPeriod, which is not earlier than the old
\* openUntil and leaves the breaker Open; this includes the RecordFailure of a
\* failed trial call while Half-Open.
C28_FailureRearms ==
    [][(hist'.fsince = hist.fsince + 1 /\ cb'.failures >= cb.threshold) =>
            /\ cb'.openUntil = now + cb.resetPeriod
            /\ cb'.openUntil >= cb.openUntil
            /\ now' < cb'.openUntil]_vars

\* A failure recorded while Half-Open has just re-opened the breaker.
C28_Witness ==
    /\ hist.last = "RecordFailure"
    /\ hist.failFrom = CircuitHalfOpen
    /\ hist.lastFailAt = now
    /\ hist.fsince > cb.threshold
    /\ cb.openUntil = now + cb.resetPeriod

\* C22: each RoundTrip the breaker admitted performs exactly one breaker
\* update, a RecordSuccess or a RecordFailure, when it ends; the attempts and
\* waits of the retry loop leave the breaker as it is, whatever MaxRetries is.
C22_OneUpdatePerCall ==
    [][\A p \in Procs :
        /\ call[p].pc \in {"loop", "sleep"} => cb' = cb
        /\ (/\ call[p].admitted = "yes"
            /\ call[p].pc \notin {"done", "panic"}
            /\ call'[p].pc \in {"done", "panic"})
           => \/ /\ call'[p].rec = "failure"
                 /\ cb'.failures = cb.failures + 1
                 /\ hist'.fsince = hist.fsince + 1
              \/ /\ call'[p].rec = "success"
                 /\ cb'.failures = 0
                 /\ hist'.last = "RecordSuccess"]_vars

\* C26: every attempt of a request that has a body is sent with an unread
\* body, the original's or a new copy of it, and never with a body an earlier
\* attempt has consumed, also when GetBody is nil or returns an error.
C26_FreshBodyPerAttempt ==
    \A p \in Procs : "consumed" \notin call[p].sentBody

\* C27: every response the retry loop receives is either the one returned,
\* with its body open, or has its body closed before the next attempt starts;
\* none is both closed and returned and none is dropped unclosed.
C27_ResponsesClosedOrReturned ==
    \A p \in Procs :
        /\ call[p].pc \in {"loop", "sleep"} => call[p].closed = call[p].resps
        /\ call[p].pc = "done" =>
              IF call[p].ret.resp # Nil
              THEN ~call[p].lastClosed /\ call[p].closed = call[p].resps - 1
              ELSE call[p].closed = call[p].resps

\* The retries are used up on a retryable status: the last 503 is returned
\* open and the ones before it were closed.
C27_Witness ==
    \E p \in Procs :
        /\ call[p].pc = "done"
        /\ call[p].req.Method = "GET"
        /\ call[p].ret.resp = 503
        /\ call[p].calls = retryConfig.MaxRetries + 1
        /\ call[p].calls >= 2
        /\ call[p].closed = call[p].calls - 1
        /\ ~call[p].lastClosed

\* The breaker's counters say Half-Open / Open as stateUnlocked reads them.
CountersHalfOpen(b, t) == b.failures >= b.threshold /\ t > b.openUntil
CountersOpen(b, t) == b.failures >= b.threshold /\ t <= b.openUntil

\* C25: while the breaker is Half-Open every caller that asks Allow() is
\* admitted and goes on to the retry loop, where its attempt at the
\* underlying transport is enabled, however many calls were admitted before
\* it; a Half-Open breaker denies nobody.
C25_HalfOpenAdmitsAll ==
    /\ [](\A p \in Procs :
            (call[p].admitted = "yes" /\ call[p].pc = "loop"
                /\ call[p].attempt <= retryConfig.MaxRetries /\ ~Crashed)
            => ENABLED (\E out \in ConcOutcomes : DoWithRetryAttempt(p, out)))
    /\ [][\A p \in Procs :
            (/\ CountersHalfOpen(cb, now)
             /\ call[p].pc = "allow"
             /\ call'[p].pc # "allow")
            => call'[p].admitted = "yes" /\ call'[p].pc = "loop"]_vars

\* Two goroutines were both admitted by the Half-Open breaker and are in the
\* retry loop at once, no Record* call having changed the counters yet.
C25_Witness ==
    /\ CountersHalfOpen(cb, now)
    /\ \A p \in Procs :
          /\ call[p].admitted = "yes"
          /\ call[p].allowState = CircuitHalfOpen
          /\ call[p].pc = "loop"
          /\ call[p].calls = 0

\* C29 as stated: while the breaker is Open and the time has not passed
\* openUntil, no step of any goroutine makes Allow() true.
C29_OpenStaysOpen ==
    [][(CountersOpen(cb, now) /\ now' <= cb.openUntil)
          => ~Allow(cb', now')]_vars

\* C29: while the breaker is Open and the time has not passed openUntil, no
\* step other than a RecordSuccess makes Allow() true; a call admitted before
\* the breaker opened that ends in a failure leaves it Open, with a deadline
\* that is not earlier.
C29_OpenUntilTimeOrSuccess ==
    [][(/\ CountersOpen(cb, now)
        /\ now' <= cb.openUntil
        /\ ~(hist'.last = "RecordSuccess" /\ hist' # hist))
          => ~Allow(cb', now') /\ cb'.openUntil >= cb.openUntil]_vars

\* A call admitted while the breaker was closed ended in a failure while the
\* breaker was Open, and the breaker is still Open.
C29_Witness ==
    /\ hist.last = "RecordFailure"
    /\ hist.failFrom = CircuitOpen
    /\ CountersOpen(cb, now)
    /\ \E p \in Procs :
          /\ call[p].pc = "done"
          /\ call[p].rec = "failure"
          /\ call[p].allowState = CircuitClosed

\* C30: every CircuitBreakerError RoundTrip returns carries a non-zero
\* OpenUntil, the deadline the breaker had when Allow() denied the call, which
\* is not earlier than the moment of the denial.
C30_ErrorCarriesDeadline ==
    \A p \in Procs :
        (call[p].pc = "done" /\ call[p].ret.err = "circuit")
        => /\ call[p].ret.OpenUntil # ZeroTime
           /\ call[p].ret.OpenUntil = call[p].denyUntil
           /\ call[p].ret.OpenUntil >= call[p].denyAt

\* C24: under every interleaving of the goroutines' breaker calls, whenever
\* no writer is inside the breaker, failures equals the number of
\* RecordFailure calls completed since the last completed RecordSuccess and
\* the deadline is set exactly when the count has reached the threshold;
\* readers and a writer are never inside together, and what a reader returns
\* is the value of the fields as they are at one moment.
C24_AtomicCalls ==
    /\ sync.w = Nil =>
          /\ cb.failures = hist.fsince
          /\ (cb.openUntil # ZeroTime) <=> (cb.failures >= cb.threshold)
    /\ sync.r # {} => sync.w = Nil
    /\ \A p \in Procs :
          LET g == sync.g[p]
              state == IF hist.fsince < cb.threshold THEN CircuitClosed
                       ELSE IF g.at > cb.openUntil THEN CircuitHalfOpen
                       ELSE CircuitOpen
          IN  g.pc = "runlock" =>
                 g.res = IF g.op = "OpenUntil" THEN cb.openUntil
                         ELSE IF g.op = "State" THEN state
                         ELSE state # CircuitOpen

\* Calls were made while another goroutine was inside a Record* call; all
\* have completed and every increment counts.
C24_Witness ==
    /\ sync.w = Nil
    /\ sync.ov >= 2
    /\ \A p \in Procs : sync.g[p].pc = "idle"
    /\ hist.last = "RecordFailure"
    /\ hist.fsince >= 2
    /\ cb.failures = hist.fsince

====
